---- MODULE Spec2Model ----
(***************************************************************************)
(* Model of the client-side fleet timeline simulator                       *)
(* (src/lib/hooks/useSupplyChainStream.ts): route initialization for the   *)
(* configured trucks, the scripted playback timeline, and the user         *)
(* actions executeArbitrage / dismissArbitrage.                            *)
(*                                                                         *)
(* Time is the browser clock in milliseconds.  Timers (setTimeout) live    *)
(* in one queue in registration order; a timer fires at its deadline,      *)
(* earliest deadline first, ties in registration order.  The clock jumps   *)
(* from one timer deadline to the next (by TickMs when no timer is         *)
(* pending), so the consumer acts at timer instants, before or after the   *)
(* timers of that instant.  Coordinates are [lon, lat] pairs scaled by     *)
(* 10^4.                                                                   *)
(* React drops state updates of an unmounted component, so every setter    *)
(* is a no-op once the consumer has unmounted; timers and the async        *)
(* loadRoutes loop keep running unless the code cancels them.              *)
(*                                                                         *)
(* The second part models the alternative data source, the useWebSocket    *)
(* hook (src/unnamed/part_001): its state object, the module-level sets    *)
(* and connection timestamp, the sockets it creates, its reconnect timers  *)
(* and the messages the server may send.  Each hook has its own variables; *)
(* a specification of one hook leaves the other hook in its initial state. *)
(***************************************************************************)
EXTENDS Integers, Sequences, FiniteSets, TLC

VARIABLES trucks, eventsLog, arbitrage, routeLoaded,
          mounted, now, timers,
          loadPc, loadIdx, loadedTrucks, resolver, response,
          lastOp

\* useWebSocket: the useState object, the refs, the module-level variables,
\* the sockets created so far, the reconnect timers set so far, whether the
\* effect is mounted, the clock, and the last step taken
VARIABLES state, wsRef, reconnectTimeoutRef, reconnectAttempts,
          dismissedArbitrageSet, resolvedTrucksSet, connectionTimestamp,
          sockets, wsTimers, wsMounted, wsNow, wsOp

streamVars == <<trucks, eventsLog, arbitrage, routeLoaded, mounted, now,
                timers, loadPc, loadIdx, loadedTrucks, resolver, response,
                lastOp>>

wsVars == <<state, wsRef, reconnectTimeoutRef, reconnectAttempts,
            dismissedArbitrageSet, resolvedTrucksSet, connectionTimestamp,
            sockets, wsTimers, wsMounted, wsNow, wsOp>>

vars == <<streamVars, wsVars>>

----------------------------------------------------------------------------
(* Bounds of the model *)

TickMs == 5000
MaxTime == 17000
MaxCalls == 2
WsMaxTime == 40000
MaxSockets == 7
TrafficMaxTime == 20000
MaxTrafficSockets == 2

----------------------------------------------------------------------------
(* Program constants *)

\* Variant: the delay given in seconds to a timer that takes milliseconds
InterRequestDelayInSeconds == 300 \div 1000

InterRequestDelay == 300
GraceDelay == 2000
ResolvedVelocity == 65

TargetTruck == "TRK-402"

ROUTES ==
  << [id |-> "TRK-402", driver |-> "Priya Sharma",
      start |-> <<738567, 185204>>, end |-> <<728777, 190760>>,
      cargoValue |-> 120000, velocity |-> 68],
     [id |-> "TRK-301", driver |-> "Rajesh Kumar",
      start |-> <<775946, 129716>>, end |-> <<772090, 286139>>,
      cargoValue |-> 85000, velocity |-> 72],
     [id |-> "TRK-205", driver |-> "Anita Desai",
      start |-> <<728777, 190760>>, end |-> <<883639, 225726>>,
      cargoValue |-> 95000, velocity |-> 70] >>

----------------------------------------------------------------------------
(* Pure helpers *)

Origin == <<0, 0>>

\* createTruck (status defaults to 'on-time'), with the `|| [0, 0]` defaults
\* for an empty route
createTruck(id, driver, cargoValue, velocity, route) ==
  [id |-> id, cargoValue |-> cargoValue, velocity |-> velocity,
   status |-> "on-time",
   position |-> IF Len(route) > 0 THEN route[1] ELSE Origin,
   destination |-> IF Len(route) > 0 THEN route[Len(route)] ELSE Origin,
   route |-> route, driver |-> driver]

\* A log entry.  The id template strings are modelled by their parts:
\* `evt-${ts}` is [prefix "evt", truck "", ts], `evt-route-${id}-${ts}` is
\* [prefix "evt-route", truck id, ts]; 'init' has no timestamp part.
LogEntry(prefix, truck, ts, type, message, n, severity) ==
  [id |-> [prefix |-> prefix, truck |-> truck, ts |-> ts],
   timestamp |-> ts, type |-> type,
   message |-> [text |-> message, n |-> n], severity |-> severity]

NoArbitrage == <<>>

\* Variant: solutionCost and projectedPenalty edited, netSavings left stale
EventArbitrageStaleNet ==
  [truckId |-> TargetTruck, projectedPenalty |-> 2500,
   solutionType |-> "Relief Truck via Spot Market", solutionCost |-> 900,
   netSavings |-> 1700, details |-> "Deploy backup truck - ETA 45 min"]

\* The 12000 ms event's opportunity (line 75)
EventArbitrage ==
  [truckId |-> TargetTruck, projectedPenalty |-> 2500,
   solutionType |-> "Relief Truck via Spot Market", solutionCost |-> 800,
   netSavings |-> 1700, details |-> "Deploy backup truck - ETA 45 min"]

\* Variant: the opportunity is scheduled before the critical alert
EventTimeOpportunityEarly(i) ==
  CASE i = 1 -> 2000 [] i = 2 -> 5000 [] i = 3 -> 8000 [] i = 4 -> 6000

\* events[i].time
EventTime(i) ==
  CASE i = 1 -> 2000 [] i = 2 -> 5000 [] i = 3 -> 8000 [] i = 4 -> 12000

NumEvents == 4

\* Variant: the update is applied to every truck
SetTruckEvery(ts, tid, velocity, status) ==
  [i \in 1..Len(ts) |->
     [ts[i] EXCEPT !.velocity = velocity, !.status = status]]

\* Variant: the update writes the status and leaves the velocity
SetTruckKeepsVelocity(ts, tid, velocity, status) ==
  [i \in 1..Len(ts) |->
     IF ts[i].id = tid THEN [ts[i] EXCEPT !.status = status] ELSE ts[i]]

\* trucks.map(t => t.id === tid ? { ...t, velocity, status } : t)
SetTruck(ts, tid, velocity, status) ==
  [i \in 1..Len(ts) |->
     IF ts[i].id = tid
       THEN [ts[i] EXCEPT !.velocity = velocity, !.status = status]
       ELSE ts[i]]

\* Variant: the 5000 ms event already sets critical
EventStatusSkipsDelayed(i) ==
  CASE i = 2 -> "critical" [] i = 3 -> "critical" [] OTHER -> "on-time"

\* The status an event writes to the target truck (lines 61, 68)
EventStatus(i) ==
  CASE i = 2 -> "delayed" [] i = 3 -> "critical" [] OTHER -> "on-time"

\* events[i].action(trucks): the partial result; an absent key is the empty
\* sequence in `trucks` / `arbitrage` (hasTrucks / hasArbitrage FALSE).
EventAction(i, ts, t) ==
  CASE i = 1 ->
         [hasTrucks |-> FALSE, trucks |-> <<>>,
          hasArbitrage |-> FALSE, arbitrage |-> NoArbitrage,
          events |-> << LogEntry("evt", "", t, "sensor",
                                 "GPS sensors operational", 0, "info") >>]
    [] i = 2 ->
         [hasTrucks |-> TRUE, trucks |-> SetTruck(ts, TargetTruck, 0, EventStatus(2)),
          hasArbitrage |-> FALSE, arbitrage |-> NoArbitrage,
          events |-> << LogEntry("evt", "", t, "alert",
                                 "TRK-402 velocity dropped to 0 km/h", 0,
                                 "warning") >>]
    [] i = 3 ->
         [hasTrucks |-> TRUE, trucks |-> SetTruck(ts, TargetTruck, 0, EventStatus(3)),
          hasArbitrage |-> FALSE, arbitrage |-> NoArbitrage,
          events |-> << LogEntry("evt", "", t, "alert",
                                 "TRK-402 CRITICAL - SLA threshold exceeded", 0,
                                 "critical") >>]
    [] i = 4 ->
         [hasTrucks |-> FALSE, trucks |-> <<>>,
          hasArbitrage |-> TRUE, arbitrage |-> << EventArbitrage >>,
          events |-> << LogEntry("evt", "", t, "arbitrage",
                                 "ARBITRAGE OPPORTUNITY - Net Savings: $1,700",
                                 0, "critical") >>]

----------------------------------------------------------------------------
(* Route resolution results and the loop body of loadRoutes *)

Via == <<750000, 190000>>
Snap == <<738000, 185000>>

\* What the routing service can answer to the GET of fetchRoute: the
\* request fails, the body is not JSON, or the body is a JSON object with a
\* code and a list of route candidates (a candidate is well formed when it
\* has a geometry; the service snaps the first point to the nearest road, so
\* it need not equal `start`).
Response(kind, code, routes) == [kind |-> kind, code |-> code, routes |-> routes]

Candidate(wellFormed, coordinates) ==
  [wellFormed |-> wellFormed, coordinates |-> coordinates]

NoResponse == Response("none", "", << >>)

RoadResponse(cfg) ==
  Response("json", "Ok", << Candidate(TRUE, <<cfg.start, Via, Snap, cfg.end>>),
                            Candidate(TRUE, <<cfg.start, cfg.end>>) >>)

AllResponses(cfg) ==
  { Response("network-error", "", << >>),
    Response("not-json", "", << >>),
    Response("json", "NoRoute", << >>),
    Response("json", "Ok", << >>),
    Response("json", "Ok", << Candidate(FALSE, << >>) >>),
    Response("json", "Ok", << Candidate(TRUE, << >>) >>),
    Response("json", "Ok", << Candidate(TRUE, <<Snap, Via, cfg.end>>) >>),
    RoadResponse(cfg) }

\* The routing service of one run: it fails every request ("throws"),
\* answers every request with a road route ("road"), or answers each request
\* in any of the ways above ("any").
Resolvers == {"throws", "road"}

Responses(cfg, r) ==
  CASE r = "throws" -> { Response("network-error", "", << >>) }
    [] r = "road" -> { RoadResponse(cfg) }
    [] OTHER -> AllResponses(cfg)

\* fetchRoute of lib/utils/routing.ts as documented: `await fetch(url)`
\* rejects on a network error, `await response.json()` rejects on a body that
\* is not JSON, `data.routes[0].geometry.coordinates` throws a TypeError when
\* there is no first candidate or it has no geometry, and any code but 'Ok'
\* gives null.  Nothing is caught.
fetchRoute(resp) ==
  IF resp.kind = "network-error" \/ resp.kind = "not-json"
    THEN [kind |-> "throw", route |-> << >>]
  ELSE IF resp.code = "Ok"
    THEN IF Len(resp.routes) = 0 \/ ~resp.routes[1].wellFormed
           THEN [kind |-> "throw", route |-> << >>]
           ELSE [kind |-> "route", route |-> resp.routes[1].coordinates]
  ELSE [kind |-> "null", route |-> << >>]

\* What `await fetchRoute(start, end)` can produce: it throws, it returns
\* null, or it returns a coordinate list (possibly empty).
AllFetchResults(cfg) == { fetchRoute(resp) : resp \in AllResponses(cfg) }

FetchResults(cfg, r) == { fetchRoute(resp) : resp \in Responses(cfg, r) }

\* Variant: `if (route)` only; an empty array is truthy
RouteUsableTruthy(res) == res.kind = "route"

\* `route && route.length > 0`
RouteUsable(res) == res.kind = "route" /\ Len(res.route) > 0

Outcome(res) ==
  CASE res.kind = "throw" -> "throw"
    [] res.kind = "null" -> "null"
    [] res.kind = "route" /\ Len(res.route) = 0 -> "empty"
    [] OTHER -> "ok"

\* Variant: the fallback keeps only the start point
FallbackRouteStartOnly(cfg) == << cfg.start >>

\* Lines 117 and 130: [routeConfig.start, routeConfig.end]
FallbackRoute(cfg) == << cfg.start, cfg.end >>

\* The truck pushed onto loadedTrucks by one loop iteration (lines 95-139)
\* Variant: a fallback truck is created standing still
LoadedTruckFallbackStopped(cfg, res) ==
  IF res.kind # "throw" /\ RouteUsable(res)
    THEN createTruck(cfg.id, cfg.driver, cfg.cargoValue, cfg.velocity,
                     res.route)
    ELSE createTruck(cfg.id, cfg.driver, cfg.cargoValue, 0,
                     FallbackRoute(cfg))

LoadedTruck(cfg, res) ==
  IF res.kind = "throw"
    THEN createTruck(cfg.id, cfg.driver, cfg.cargoValue, cfg.velocity,
                     FallbackRoute(cfg))
    ELSE IF RouteUsable(res)
      THEN createTruck(cfg.id, cfg.driver, cfg.cargoValue, cfg.velocity,
                       res.route)
      ELSE createTruck(cfg.id, cfg.driver, cfg.cargoValue, cfg.velocity,
                       FallbackRoute(cfg))

\* Variant: the catch block only reports the error
PushedTrucksNoneOnThrow(cfg, res) ==
  IF res.kind = "throw" THEN << >> ELSE << LoadedTruck(cfg, res) >>

\* loadedTrucks.push(truck) of the branch taken (lines 106, 125, 138)
PushedTrucks(cfg, res) == << LoadedTruck(cfg, res) >>

\* Variant: the updater ignores `prev` and uses the log of the first render
PrependStale(new, prev) ==
  new \o << LogEntry("init", "", 0, "system", "Agent initialized", 0, "info") >>

\* The setEventsLog updaters: prev => [...new, ...prev]
Prepend(new, prev) == new \o prev

\* Variant: the loop body logs nothing
RouteLoadedLogNone(cfg, res, t) == << >>

\* The log entries one loop iteration prepends (lines 108-114)
RouteLoadedLog(cfg, res, t) ==
  IF res.kind # "throw" /\ RouteUsable(res)
    THEN << LogEntry("evt-route", cfg.id, t, "system", "route loaded",
                     Len(res.route), "info") >>
    ELSE << >>

AllRoutesLog(n, t) ==
  << LogEntry("evt-all-routes", "", t, "system",
              "trucks initialized with real routes", n, "info") >>

----------------------------------------------------------------------------
(* Timers *)

Timer(kind, due, ev, tid) == [kind |-> kind, due |-> due, ev |-> ev, tid |-> tid]

\* Variant: the effect without its `if (!routeLoaded) return` guard
PlaybackTimersUnguarded(loaded, t) ==
  [i \in 1..NumEvents |-> Timer("event", t + EventTime(i), i, "")]

\* Variant: the last event is registered with a repeating timer
PlaybackTimersRepeatLast(loaded, t) ==
  IF ~loaded THEN << >>
  ELSE [i \in 1..NumEvents |-> Timer("event", t + EventTime(i), i, "")]
         \o << Timer("event", t + EventTime(NumEvents) + 2000, NumEvents, "") >>

\* The playback effect (lines 175-190): nothing unless routeLoaded
PlaybackTimers(loaded, t) ==
  IF ~loaded THEN << >>
  ELSE [i \in 1..NumEvents |-> Timer("event", t + EventTime(i), i, "")]

\* The playback effect's cleanup (line 192): clearTimeout of its four timers
\* Variant: the cleanup clears nothing
CleanupTimersNone(q) == q

CleanupTimers(q) == SelectSeq(q, LAMBDA x : x.kind # "event")

DueIdx(q, t) == { i \in 1..Len(q) : q[i].due <= t }

\* The next timer to fire at clock t: earliest deadline, then registration order
NextDue(q, t) ==
  CHOOSE i \in DueIdx(q, t) :
    \A j \in DueIdx(q, t) :
      \/ q[j].due > q[i].due
      \/ (q[j].due = q[i].due /\ j >= i)

RemoveAt(q, i) == SubSeq(q, 1, i - 1) \o SubSeq(q, i + 1, Len(q))

HasDue == DueIdx(timers, now) # {}

Firing == timers[NextDue(timers, now)]

----------------------------------------------------------------------------
(* The hook's state and operations *)

\* A useState setter: the new value while mounted, dropped after unmount
SetState(cur, new) == IF mounted THEN new ELSE cur

Op(op, n, tid) == [op |-> op, n |-> n, tid |-> tid]

InitLog ==
  << LogEntry("init", "", 0, "system", "Agent initialized", 0, "info") >>

ExecuteText == "Solution executed - Relief truck dispatched"
DismissText == "Arbitrage opportunity dismissed"

ExecuteLog(t) == << LogEntry("evt", "", t, "system", ExecuteText, 0, "info") >>

DismissLog(t) == << LogEntry("evt", "", t, "system", DismissText, 0, "info") >>

\* `arbitrage?.truckId` of the render whose callback is called
CapturedTruckId(arb) == IF arb = NoArbitrage THEN "undefined" ELSE arb[1].truckId

\* Variant: the commit restores the velocity but not the status
ResolveTrucksVelocityOnly(ts, tid) ==
  [i \in 1..Len(ts) |->
     IF ts[i].id = tid THEN [ts[i] EXCEPT !.velocity = ResolvedVelocity]
     ELSE ts[i]]

\* prev.map(t => t.id === tid ? { ...t, velocity: 65, status: 'resolved' } : t)
\* Variant: the commit puts the truck back on time
ResolveTrucksToOnTime(ts, tid) == SetTruck(ts, tid, ResolvedVelocity, "on-time")

ResolveTrucks(ts, tid) == SetTruck(ts, tid, ResolvedVelocity, "resolved")

\* Variant: the dismissal leaves the opportunity in place
DismissedArbitrageKept(arb) == arb

\* Variant: the dismissal toggles the modal instead of closing it
DismissedArbitrageToggled(arb) ==
  IF arb = NoArbitrage THEN << EventArbitrage >> ELSE NoArbitrage

\* setArbitrage(null) in dismissArbitrage
DismissedArbitrage(arb) == NoArbitrage

CountLog(text) ==
  Cardinality({ i \in 1..Len(eventsLog) : eventsLog[i].message.text = text })

\* Calls of executeArbitrage and dismissArbitrage made so far
Calls == CountLog(ExecuteText) + CountLog(DismissText)

----------------------------------------------------------------------------
(* useWebSocket: data *)

maxReconnectAttempts == 5
FreshAfter == 2000

\* Optional values (a JSON key that may be missing, a nullable field) are
\* sequences of length 0 or 1
None == << >>
Some(x) == << x >>

\* A truck as the backend sends it; a missing position, destination or route
\* is None / the empty list
WsTruck(id, status, position, destination, route) ==
  [id |-> id, status |-> status, position |-> position,
   destination |-> destination, route |-> route]

\* An event of the agent stream.  Of the message text the hook reads the
\* truck ids it mentions, in order of appearance, and whether it contains
\* 'CRITICAL'
WsEvent(kind, ids, critical, severity) ==
  [kind |-> kind, ids |-> ids, critical |-> critical, severity |-> severity]

WsArbitrage(truckId) == [truckId |-> truckId, netSavings |-> 1700]

OtherTruck == ROUTES[2].id

\* processTrucks (lines 37-67): a truck without a route gets the two-point
\* route [position, destination], or [[0,0],[0,0]] when either is missing
processTrucks(ts) ==
  [i \in 1..Len(ts) |->
     IF Len(ts[i].route) = 0
       THEN [ts[i] EXCEPT !.route =
               IF ts[i].position # None /\ ts[i].destination # None
                 THEN << ts[i].position[1], ts[i].destination[1] >>
                 ELSE << Origin, Origin >>]
       ELSE ts[i]]

\* Variant: freshness window of 0 ms and no check of the zero timestamp
isArbitrageFreshAlways(t, connectedAt) == t - connectedAt >= 0

\* isArbitrageFresh (lines 343-348)
isArbitrageFresh(t, connectedAt) ==
  IF connectedAt = 0 THEN FALSE ELSE t - connectedAt > FreshAfter

\* The event filter of state_update (lines 114-129): message.match(/TRK-\d+/)
\* is the first truck id of the message
KeptByUpdateFilter(e, resolved) ==
  ~(/\ e.critical /\ e.severity = "critical"
    /\ Len(e.ids) > 0
    /\ e.ids[1] \in resolved)

\* The event filter of executeArbitrage (lines 284-288)
KeptByExecuteFilter(e, truckId) ==
  ~(/\ \E k \in 1..Len(e.ids) : e.ids[k] = truckId
    /\ e.critical)

WsResolvedEvent(truckId, t) ==
  [kind |-> "resolved", ids |-> << truckId >>, critical |-> FALSE,
   severity |-> "info", ts |-> t]

\* Math.min(1000 * Math.pow(2, n), 10000)
ReconnectDelayUncapped(n) == 1000 * 2^n

ReconnectDelay(n) == IF 1000 * 2^n < 10000 THEN 1000 * 2^n ELSE 10000

\* What the server may send.  A message is {type, data}; for initial_state
\* and state_update the data is {trucks?, events?, arbitrage?}, where a key
\* may be missing or (trucks) null; for arbitrage_opportunity the data is the
\* opportunity itself.
WsMessage(type, hasTrucksKey, ts, es, arb) ==
  [type |-> type, hasTrucksKey |-> hasTrucksKey, trucks |-> ts,
   events |-> es, arbitrage |-> arb]

PointA == <<738567, 185204>>
PointB == <<728777, 190760>>

FleetTargetCritical ==
  << WsTruck(TargetTruck, "critical", Some(PointA), Some(PointB),
             << PointA, Via, PointB >>),
     WsTruck(OtherTruck, "on-time", Some(PointB), None, << >>) >>

FleetOtherCritical ==
  << WsTruck(TargetTruck, "on-time", Some(PointA), Some(PointB), << >>),
     WsTruck(OtherTruck, "critical", Some(PointB), Some(PointA),
             << PointB, PointA >>) >>

AlertsTarget ==
  << WsEvent("alert", << TargetTruck >>, TRUE, "critical"),
     WsEvent("sensor", << >>, FALSE, "info") >>

AlertsMixed ==
  << WsEvent("alert", << OtherTruck, TargetTruck >>, TRUE, "critical"),
     WsEvent("alert", << TargetTruck >>, TRUE, "warning") >>

\* The messages of the model: every message type, with every key present,
\* missing, null or empty at least once, and opportunities for two trucks
ServerMessages ==
  { WsMessage("initial_state", TRUE, Some(FleetTargetCritical),
              Some(AlertsTarget), Some(WsArbitrage(TargetTruck))),
    WsMessage("initial_state", TRUE, None, None, None),
    WsMessage("initial_state", FALSE, None, Some(AlertsMixed),
              Some(WsArbitrage(OtherTruck))),
    WsMessage("state_update", TRUE, Some(FleetTargetCritical),
              Some(AlertsTarget), Some(WsArbitrage(TargetTruck))),
    WsMessage("state_update", TRUE, Some(FleetOtherCritical),
              Some(AlertsMixed), Some(WsArbitrage(OtherTruck))),
    WsMessage("state_update", TRUE, Some(<< >>), Some(<< >>), None),
    WsMessage("state_update", TRUE, None, None, Some(WsArbitrage(""))),
    WsMessage("state_update", FALSE, None, Some(AlertsTarget),
              Some(WsArbitrage(TargetTruck))),
    WsMessage("arbitrage_opportunity", FALSE, None, None,
              Some(WsArbitrage(TargetTruck))),
    WsMessage("arbitrage_opportunity", FALSE, None, None,
              Some(WsArbitrage(OtherTruck))),
    WsMessage("arbitrage_opportunity", FALSE, None, None, None),
    WsMessage("arbitrage_executed", FALSE, None, None, None),
    WsMessage("pong", FALSE, None, None, None) }

\* Variant: state_update shows a fresh, not dismissed opportunity also when
\* one is already showing
UpdateArbitrageNoExistingCheck(st, arb, fresh, dismissed) ==
  IF arb # None /\ arb[1].truckId # ""
     /\ fresh /\ arb[1].truckId \notin dismissed
    THEN arb
    ELSE st.arbitrageOpportunity

\* state_update, lines 133-156
UpdateArbitrage(st, arb, fresh, dismissed) ==
  IF arb # None /\ arb[1].truckId # ""
     /\ fresh /\ arb[1].truckId \notin dismissed
     /\ st.arbitrageOpportunity = None
    THEN arb
    ELSE st.arbitrageOpportunity

\* Variant: the direct message ignores the dismissed set
DirectArbitrageIgnoresDismissed(st, arb, fresh, dismissed) ==
  IF arb # None /\ fresh /\ st.arbitrageOpportunity = None
    THEN arb
    ELSE st.arbitrageOpportunity

\* arbitrage_opportunity, lines 164-179
DirectArbitrage(st, arb, fresh, dismissed) ==
  IF arb # None /\ fresh
     /\ arb[1].truckId \notin dismissed
     /\ st.arbitrageOpportunity = None
    THEN arb
    ELSE st.arbitrageOpportunity

\* handleMessage (lines 83-195): the state after message m
handleMessage(m, st, fresh, dismissed, resolved) ==
  CASE m.type = "initial_state" ->
         IF m.hasTrucksKey
           THEN [st EXCEPT
                   !.trucks = IF m.trucks # None
                                THEN processTrucks(m.trucks[1]) ELSE @,
                   !.events = IF m.events # None THEN m.events[1] ELSE @]
           ELSE st
    [] m.type = "state_update" ->
         IF m.hasTrucksKey
           THEN [st EXCEPT
                   !.trucks = IF m.trucks # None /\ Len(m.trucks[1]) > 0
                                THEN processTrucks(m.trucks[1]) ELSE @,
                   !.events = IF m.events # None /\ Len(m.events[1]) > 0
                                THEN SelectSeq(m.events[1],
                                       LAMBDA e : KeptByUpdateFilter(e, resolved))
                                ELSE @,
                   !.arbitrageOpportunity =
                      UpdateArbitrage(st, m.arbitrage, fresh, dismissed)]
           ELSE st
    [] m.type = "arbitrage_opportunity" ->
         [st EXCEPT !.arbitrageOpportunity =
                      DirectArbitrage(st, m.arbitrage, fresh, dismissed)]
    [] m.type = "arbitrage_executed" ->
         [st EXCEPT !.arbitrageOpportunity = None]
    [] OTHER -> st

\* executeArbitrage, lines 276-281
ResolvedTrucks(ts, truckId) ==
  [i \in 1..Len(ts) |->
     IF ts[i].id = truckId THEN [ts[i] EXCEPT !.status = "resolved"]
     ELSE ts[i]]

WsInitialState ==
  [trucks |-> << >>, events |-> << >>, arbitrageOpportunity |-> None,
   connected |-> FALSE, error |-> None]

WsOp(op, type, sock, truckId) ==
  [op |-> op, type |-> type, sock |-> sock, truckId |-> truckId]

\* The hook after its first render, before its effect has run
WsConstructed ==
  /\ state = WsInitialState
  /\ wsRef = 0
  /\ reconnectTimeoutRef = 0
  /\ reconnectAttempts = 0
  /\ dismissedArbitrageSet = {}
  /\ resolvedTrucksSet = {}
  /\ connectionTimestamp = 0
  /\ sockets = << >>
  /\ wsTimers = << >>
  /\ wsMounted = TRUE
  /\ wsNow = TickMs
  /\ wsOp = WsOp("init", "", 0, "")

----------------------------------------------------------------------------
(* Initial state *)

InitWith(rs) ==
  /\ trucks = << >>
  /\ eventsLog = InitLog
  /\ arbitrage = NoArbitrage
  /\ routeLoaded = FALSE
  /\ mounted = TRUE
  /\ now = 0
  /\ timers = << >>
  /\ loadPc = "start"
  /\ loadIdx = 0
  /\ loadedTrucks = << >>
  /\ resolver \in rs
  /\ response = NoResponse
  /\ lastOp = Op("init", 0, "")
  /\ WsConstructed

Init == InitWith(Resolvers)

\* The two effects run after the first render: loadRoutes() issues the first
\* request, the playback effect sees routeLoaded = false.
Mount ==
  /\ loadPc = "start"
  /\ loadPc' = "await"
  /\ loadIdx' = 1
  /\ timers' = timers \o PlaybackTimers(routeLoaded, now)
  /\ lastOp' = Op("mount", 0, "")
  /\ UNCHANGED <<trucks, eventsLog, arbitrage, routeLoaded, mounted, now,
                 loadedTrucks, resolver,
                 response, wsVars>>

\* The pending fetchRoute settles and the loop body runs up to the delay
FetchSettle ==
  /\ loadPc = "await"
  /\ \E resp \in Responses(ROUTES[loadIdx], resolver) :
       LET res == fetchRoute(resp) IN
       /\ response' = resp
       /\ loadedTrucks' = loadedTrucks \o PushedTrucks(ROUTES[loadIdx], res)
       /\ eventsLog' = SetState(eventsLog,
                         Prepend(RouteLoadedLog(ROUTES[loadIdx], res, now),
                                 eventsLog))
       /\ lastOp' = Op("settle", loadIdx, Outcome(res))
  /\ timers' = Append(timers, Timer("delay", now + InterRequestDelay, 0, ""))
  /\ loadPc' = "delay"
  /\ UNCHANGED <<trucks, arbitrage, routeLoaded, mounted, now, loadIdx,
                 resolver, wsVars>>

\* The inter-request delay elapses and the next request is issued
NextRequest ==
  /\ HasDue /\ Firing.kind = "delay"
  /\ loadIdx < Len(ROUTES)
  /\ timers' = RemoveAt(timers, NextDue(timers, now))
  /\ loadIdx' = loadIdx + 1
  /\ loadPc' = "await"
  /\ lastOp' = Op("next", loadIdx + 1, "")
  /\ UNCHANGED <<trucks, eventsLog, arbitrage, routeLoaded, mounted, now,
                 loadedTrucks, resolver,
                 response, wsVars>>

\* The last delay elapses: setTrucks, setEventsLog, setRouteLoaded, and the
\* playback effect of the render with routeLoaded = true
LoadRoutesComplete ==
  /\ HasDue /\ Firing.kind = "delay"
  /\ loadIdx = Len(ROUTES)
  /\ trucks' = SetState(trucks, loadedTrucks)
  /\ eventsLog' = SetState(eventsLog,
                           Prepend(AllRoutesLog(Len(loadedTrucks), now),
                                   eventsLog))
  /\ routeLoaded' = SetState(routeLoaded, TRUE)
  /\ timers' = RemoveAt(timers, NextDue(timers, now))
                 \o SetState(<< >>, PlaybackTimers(routeLoaded', now))
  /\ loadPc' = "done"
  /\ lastOp' = Op("complete", 0, "")
  /\ UNCHANGED <<arbitrage, mounted, now, loadIdx, loadedTrucks, resolver,
                 response, wsVars>>

\* A playback timer fires (lines 181-188)
PlaybackEvent ==
  /\ HasDue /\ Firing.kind = "event"
  /\ LET r == EventAction(Firing.ev, trucks, now) IN
       /\ trucks' = SetState(trucks, IF r.hasTrucks THEN r.trucks ELSE trucks)
       /\ eventsLog' = SetState(eventsLog, Prepend(r.events, eventsLog))
       /\ arbitrage' = SetState(arbitrage,
                         IF r.hasArbitrage THEN r.arbitrage ELSE arbitrage)
  /\ timers' = RemoveAt(timers, NextDue(timers, now))
  /\ lastOp' = Op("event", EventTime(Firing.ev), "")
  /\ UNCHANGED <<routeLoaded, mounted, now, loadPc, loadIdx, loadedTrucks,
                 resolver,
                 response, wsVars>>

\* The consumer calls executeArbitrage of the current render
ExecuteArbitrage ==
  /\ mounted /\ loadPc # "start"
  /\ Calls < MaxCalls
  /\ eventsLog' = SetState(eventsLog, Prepend(ExecuteLog(now), eventsLog))
  /\ timers' = Append(timers, Timer("grace", now + GraceDelay, 0,
                                    CapturedTruckId(arbitrage)))
  /\ lastOp' = Op("execute", 0, CapturedTruckId(arbitrage))
  /\ UNCHANGED <<trucks, arbitrage, routeLoaded, mounted, now, loadPc,
                 loadIdx, loadedTrucks, resolver,
                 response, wsVars>>

\* The timer of executeArbitrage fires (lines 197-200)
ExecuteCommit ==
  /\ HasDue /\ Firing.kind = "grace"
  /\ trucks' = SetState(trucks, ResolveTrucks(trucks, Firing.tid))
  /\ arbitrage' = SetState(arbitrage, NoArbitrage)
  /\ timers' = RemoveAt(timers, NextDue(timers, now))
  /\ lastOp' = Op("commit", Firing.due, Firing.tid)
  /\ UNCHANGED <<eventsLog, routeLoaded, mounted, now, loadPc, loadIdx,
                 loadedTrucks, resolver,
                 response, wsVars>>

\* The consumer calls dismissArbitrage
DismissArbitrage ==
  /\ mounted /\ loadPc # "start"
  /\ Calls < MaxCalls
  /\ arbitrage' = SetState(arbitrage, DismissedArbitrage(arbitrage))
  /\ eventsLog' = SetState(eventsLog, Prepend(DismissLog(now), eventsLog))
  /\ lastOp' = Op("dismiss", 0, "")
  /\ UNCHANGED <<trucks, routeLoaded, mounted, now, timers, loadPc, loadIdx,
                 loadedTrucks, resolver,
                 response, wsVars>>

\* The consumer unmounts: the playback effect's cleanup runs
Unmount ==
  /\ mounted /\ loadPc # "start"
  /\ mounted' = FALSE
  /\ timers' = CleanupTimers(timers)
  /\ lastOp' = Op("unmount", 0, "")
  /\ UNCHANGED <<trucks, eventsLog, arbitrage, routeLoaded, now, loadPc,
                 loadIdx, loadedTrucks, resolver,
                 response, wsVars>>

\* Minimum of a non-empty set of numbers
Min(S) == CHOOSE x \in S : \A y \in S : x <= y

\* The clock advances to the deadline of the next pending timer, or by TickMs
\* when no timer is pending; it never passes a due timer, and a route
\* request settles at the instant it was issued.
Tick ==
  /\ ~HasDue
  /\ loadPc # "await"
  /\ LET t == IF timers = << >> THEN now + TickMs
              ELSE Min({ timers[i].due : i \in 1..Len(timers) })
     IN /\ t <= MaxTime
        /\ now' = t
  /\ lastOp' = Op("tick", 0, "")
  /\ UNCHANGED <<trucks, eventsLog, arbitrage, routeLoaded, mounted, timers,
                 loadPc, loadIdx, loadedTrucks, resolver,
                 response, wsVars>>

Next ==
  \/ Mount
  \/ FetchSettle
  \/ NextRequest
  \/ LoadRoutesComplete
  \/ PlaybackEvent
  \/ ExecuteArbitrage
  \/ ExecuteCommit
  \/ DismissArbitrage
  \/ Unmount
  \/ Tick

Spec == Init /\ [][Next]_vars

\* Initialization under a routing service that answers each request in any
\* way, without calls of the consumer
InitLoad == InitWith({"any"})

NextLoad ==
  \/ Mount
  \/ FetchSettle
  \/ NextRequest
  \/ LoadRoutesComplete
  \/ PlaybackEvent
  \/ Unmount
  \/ Tick

SpecLoad == InitLoad /\ [][NextLoad]_vars

----------------------------------------------------------------------------
(* The dashboard page: FinancialModal is the only caller of the callbacks *)

ModalDelay == 1500

ModalTimers(q) == { i \in 1..Len(q) : q[i].kind = "modal" }

\* The Execute button is clicked: handleExecute of the modal's current
\* render registers a timer that will call the onExecute of that render (the
\* button is disabled while `executing`, that is until that timer fires)
ModalExecuteClick ==
  /\ mounted /\ arbitrage # NoArbitrage
  /\ ModalTimers(timers) = {}
  /\ Calls < MaxCalls
  /\ timers' = Append(timers, Timer("modal", now + ModalDelay, 0,
                                    CapturedTruckId(arbitrage)))
  /\ lastOp' = Op("click", 0, CapturedTruckId(arbitrage))
  /\ UNCHANGED <<trucks, eventsLog, arbitrage, routeLoaded, mounted, now,
                 loadPc, loadIdx, loadedTrucks, resolver, response, wsVars>>

\* The modal's timer fires and calls the captured onExecute, which is the
\* executeArbitrage of the render the click happened in
ModalExecute ==
  /\ HasDue /\ Firing.kind = "modal"
  /\ eventsLog' = SetState(eventsLog, Prepend(ExecuteLog(now), eventsLog))
  /\ timers' = Append(RemoveAt(timers, NextDue(timers, now)),
                      Timer("grace", now + GraceDelay, 0, Firing.tid))
  /\ lastOp' = Op("execute", 0, Firing.tid)
  /\ UNCHANGED <<trucks, arbitrage, routeLoaded, mounted, now, loadPc,
                 loadIdx, loadedTrucks, resolver, response, wsVars>>

\* The backdrop, the close button or Dismiss is clicked while the modal shows
ModalDismiss ==
  /\ arbitrage # NoArbitrage
  /\ DismissArbitrage

NextModal ==
  \/ Mount
  \/ FetchSettle
  \/ NextRequest
  \/ LoadRoutesComplete
  \/ PlaybackEvent
  \/ ModalExecuteClick
  \/ ModalExecute
  \/ ExecuteCommit
  \/ ModalDismiss
  \/ Unmount
  \/ Tick

SpecModal == Init /\ [][NextModal]_vars

\* The same, where the effects run after the first render, every route
\* request eventually settles, time passes and due timer callbacks run
SpecLoadFair ==
  /\ InitLoad /\ [][NextLoad]_vars
  /\ WF_vars(Mount)
  /\ WF_vars(FetchSettle)
  /\ WF_vars(NextRequest)
  /\ WF_vars(LoadRoutesComplete)
  /\ WF_vars(Tick)

----------------------------------------------------------------------------
(* useWebSocket: the effect, the sockets, the timers and the callbacks *)

\* setState of the hook: dropped once the component has unmounted
WsSetState(new) == IF wsMounted THEN new ELSE state

\* A socket the hook created: its status and, while it is open or closing,
\* the instant it opened
Socket(status, openedAt) == [status |-> status, openedAt |-> openedAt]

\* A timer the hook set: its deadline while it is pending
WsTimer(due, status) == [due |-> due, status |-> status]

PendingTimers == { k \in 1..Len(wsTimers) : wsTimers[k].status = "pending" }

\* new WebSocket(url); wsRef.current = ws (lines 199-200)
Connected(q) == Append(q, Socket("connecting", 0))

\* The effect runs after the first render: connect()
WsMount ==
  /\ wsMounted /\ wsRef = 0 /\ sockets = << >>
  /\ sockets' = Connected(sockets)
  /\ wsRef' = Len(sockets) + 1
  /\ wsOp' = WsOp("mount", "", Len(sockets) + 1, "")
  /\ UNCHANGED <<state, reconnectTimeoutRef, reconnectAttempts,
                 dismissedArbitrageSet, resolvedTrucksSet,
                 connectionTimestamp, wsTimers, wsMounted, wsNow>>
  /\ UNCHANGED streamVars

\* ws.onopen (lines 202-207)
SocketOpen(i) ==
  /\ sockets[i].status = "connecting"
  /\ sockets' = [sockets EXCEPT ![i] = Socket("open", wsNow)]
  /\ connectionTimestamp' = wsNow
  /\ state' = WsSetState([state EXCEPT !.connected = TRUE, !.error = None])
  /\ reconnectAttempts' = 0
  /\ wsOp' = WsOp("open", "", i, "")
  /\ UNCHANGED <<wsRef, reconnectTimeoutRef, dismissedArbitrageSet,
                 resolvedTrucksSet, wsTimers, wsMounted, wsNow>>
  /\ UNCHANGED streamVars

\* ws.onerror (lines 218-221)
SocketError(i) ==
  /\ sockets[i].status \in {"connecting", "open"}
  /\ state' = WsSetState([state EXCEPT
                            !.error = Some("WebSocket connection error")])
  /\ wsOp' = WsOp("error", "", i, "")
  /\ UNCHANGED <<wsRef, reconnectTimeoutRef, reconnectAttempts,
                 dismissedArbitrageSet, resolvedTrucksSet,
                 connectionTimestamp, sockets, wsTimers, wsMounted, wsNow>>
  /\ UNCHANGED streamVars

\* ws.onclose (lines 223-241): the connection failed, was lost, or was closed
SocketClose(i) ==
  /\ sockets[i].status \in {"connecting", "open", "closing"}
  /\ sockets' = [sockets EXCEPT ![i] = Socket("closed", 0)]
  /\ IF reconnectAttempts < maxReconnectAttempts
       THEN /\ reconnectAttempts' = reconnectAttempts + 1
            /\ wsTimers' = Append(wsTimers,
                   WsTimer(wsNow + ReconnectDelay(reconnectAttempts + 1),
                           "pending"))
            /\ reconnectTimeoutRef' = Len(wsTimers) + 1
            /\ state' = WsSetState([state EXCEPT !.connected = FALSE])
       ELSE /\ state' = WsSetState([state EXCEPT
                   !.connected = FALSE,
                   !.error = Some("Failed to connect to server")])
            /\ UNCHANGED <<reconnectAttempts, wsTimers, reconnectTimeoutRef>>
  /\ wsOp' = WsOp("close", "", i, "")
  /\ UNCHANGED <<wsRef, dismissedArbitrageSet, resolvedTrucksSet,
                 connectionTimestamp, wsMounted, wsNow>>
  /\ UNCHANGED streamVars

\* A reconnect timer fires: connect() (lines 232-234)
ReconnectFire(k) ==
  /\ wsTimers[k].status = "pending" /\ wsTimers[k].due <= wsNow
  /\ Len(sockets) < MaxSockets
  /\ wsTimers' = [wsTimers EXCEPT ![k] = WsTimer(0, "fired")]
  /\ sockets' = Connected(sockets)
  /\ wsRef' = Len(sockets) + 1
  /\ wsOp' = WsOp("reconnect", "", Len(sockets) + 1, "")
  /\ UNCHANGED <<state, reconnectTimeoutRef, reconnectAttempts,
                 dismissedArbitrageSet, resolvedTrucksSet,
                 connectionTimestamp, wsMounted, wsNow>>
  /\ UNCHANGED streamVars

\* ws.onmessage (lines 209-216) with a message that parses
ServerMessage(i, m) ==
  /\ sockets[i].status \in {"open", "closing"}
  /\ state' = WsSetState(handleMessage(m, state,
                   isArbitrageFresh(wsNow, connectionTimestamp),
                   dismissedArbitrageSet, resolvedTrucksSet))
  /\ wsOp' = WsOp("message", m.type, i,
                  IF m.arbitrage # None THEN m.arbitrage[1].truckId ELSE "")
  /\ UNCHANGED <<wsRef, reconnectTimeoutRef, reconnectAttempts,
                 dismissedArbitrageSet, resolvedTrucksSet,
                 connectionTimestamp, sockets, wsTimers, wsMounted, wsNow>>
  /\ UNCHANGED streamVars

\* executeArbitrage of the hook (lines 256-305)
WsExecuteArbitrage ==
  /\ wsMounted /\ wsRef # 0
  /\ IF state.arbitrageOpportunity = None
       THEN UNCHANGED <<state, dismissedArbitrageSet, resolvedTrucksSet>>
       ELSE LET truckId == state.arbitrageOpportunity[1].truckId IN
            /\ dismissedArbitrageSet' = dismissedArbitrageSet \cup {truckId}
            /\ resolvedTrucksSet' = resolvedTrucksSet \cup {truckId}
            /\ state' = [state EXCEPT
                 !.trucks = ResolvedTrucks(state.trucks, truckId),
                 !.events = << WsResolvedEvent(truckId, wsNow) >> \o
                            SelectSeq(state.events,
                              LAMBDA e : KeptByExecuteFilter(e, truckId)),
                 !.arbitrageOpportunity = None]
  /\ wsOp' = WsOp("execute", "", 0,
                  IF state.arbitrageOpportunity = None THEN ""
                  ELSE state.arbitrageOpportunity[1].truckId)
  /\ UNCHANGED <<wsRef, reconnectTimeoutRef, reconnectAttempts,
                 connectionTimestamp, sockets, wsTimers, wsMounted, wsNow>>
  /\ UNCHANGED streamVars

\* dismissArbitrage of the hook (lines 307-316)
WsDismissArbitrage ==
  /\ wsMounted /\ wsRef # 0
  /\ dismissedArbitrageSet' =
       IF state.arbitrageOpportunity # None
         THEN dismissedArbitrageSet \cup {state.arbitrageOpportunity[1].truckId}
         ELSE dismissedArbitrageSet
  /\ state' = [state EXCEPT !.arbitrageOpportunity = None]
  /\ wsOp' = WsOp("dismiss", "", 0,
                  IF state.arbitrageOpportunity = None THEN ""
                  ELSE state.arbitrageOpportunity[1].truckId)
  /\ UNCHANGED <<wsRef, reconnectTimeoutRef, reconnectAttempts,
                 resolvedTrucksSet, connectionTimestamp, sockets, wsTimers,
                 wsMounted, wsNow>>
  /\ UNCHANGED streamVars

\* wsRef.current.close() of the cleanup (lines 325-327): the close event
\* comes later
ClosedByCleanup(q, ref) ==
  IF ref # 0 /\ q[ref].status \in {"connecting", "open"}
    THEN [q EXCEPT ![ref].status = "closing"]
    ELSE q

\* The effect cleanup (lines 321-328)
WsUnmount ==
  /\ wsMounted /\ wsRef # 0
  /\ wsMounted' = FALSE
  /\ wsTimers' =
       IF reconnectTimeoutRef # 0
          /\ wsTimers[reconnectTimeoutRef].status = "pending"
         THEN [wsTimers EXCEPT ![reconnectTimeoutRef] = WsTimer(0, "cleared")]
         ELSE wsTimers
  /\ sockets' = ClosedByCleanup(sockets, wsRef)
  /\ wsOp' = WsOp("unmount", "", wsRef, "")
  /\ UNCHANGED <<state, wsRef, reconnectTimeoutRef, reconnectAttempts,
                 dismissedArbitrageSet, resolvedTrucksSet,
                 connectionTimestamp, wsNow>>
  /\ UNCHANGED streamVars

\* The clock advances to the next reconnect deadline, or by TickMs when no
\* timer is pending; it never passes a due timer
WsTick ==
  /\ \A k \in PendingTimers : wsTimers[k].due > wsNow
  /\ LET t == IF PendingTimers = {} THEN wsNow + TickMs
              ELSE Min({ wsTimers[k].due : k \in PendingTimers })
     IN /\ t <= WsMaxTime
        /\ wsNow' = t
  /\ wsOp' = WsOp("tick", "", 0, "")
  /\ UNCHANGED <<state, wsRef, reconnectTimeoutRef, reconnectAttempts,
                 dismissedArbitrageSet, resolvedTrucksSet,
                 connectionTimestamp, sockets, wsTimers, wsMounted>>
  /\ UNCHANGED streamVars

\* The connection life cycle
NextConnection ==
  \/ WsMount
  \/ \E i \in 1..Len(sockets) : SocketOpen(i)
  \/ \E i \in 1..Len(sockets) : SocketError(i)
  \/ \E i \in 1..Len(sockets) : SocketClose(i)
  \/ \E k \in 1..Len(wsTimers) : ReconnectFire(k)
  \/ WsUnmount
  \/ WsTick

InitWs == InitWith({"road"})

SpecConnection == InitWs /\ [][NextConnection]_vars

\* The hook with a server that sends any message at any time
\* and a consumer that executes and dismisses at any time, over a shorter
\* horizon
NextWs ==
  \/ WsMount
  \/ \E i \in 1..Len(sockets) : SocketOpen(i)
  \/ \E i \in 1..Len(sockets) : SocketError(i)
  \/ \E i \in 1..Len(sockets) : SocketClose(i)
  \/ \E k \in 1..Len(wsTimers) :
       Len(sockets) < MaxTrafficSockets /\ ReconnectFire(k)
  \/ \E i \in 1..Len(sockets) : \E m \in ServerMessages : ServerMessage(i, m)
  \/ WsExecuteArbitrage
  \/ WsDismissArbitrage
  \/ WsUnmount
  \/ WsTick /\ wsNow' <= TrafficMaxTime

SpecWs == InitWs /\ [][NextWs]_vars

----------------------------------------------------------------------------
(* Observations used by the properties *)

EventTimers == { i \in 1..Len(timers) : timers[i].kind = "event" }

HasTruck(ts, id) == \E i \in 1..Len(ts) : ts[i].id = id

TruckById(ts, id) == ts[CHOOSE i \in 1..Len(ts) : ts[i].id = id]

\* The instant initialization completed, read off the log
CompletedAt ==
  LET i == CHOOSE i \in 1..Len(eventsLog) :
             eventsLog[i].id.prefix = "evt-all-routes"
  IN eventsLog[i].timestamp

----------------------------------------------------------------------------
(* C1 *)

\* C1: no playback event is scheduled or fires while initialization is
\* incomplete: whenever a playback timer is pending or has just fired, all 3
\* configured trucks have been processed and are in the truck list, TRK-402
\* among them, and every pending playback timer is due at its offset from
\* the instant initialization completed.
C1_PlaybackOnlyAfterInit ==
  (EventTimers # {} \/ lastOp.op = "event") =>
     /\ loadPc = "done" /\ routeLoaded
     /\ Len(loadedTrucks) = Len(ROUTES)
     /\ Len(trucks) = Len(ROUTES)
     /\ HasTruck(trucks, TargetTruck)
     /\ \A i \in EventTimers :
          timers[i].due = CompletedAt + EventTime(timers[i].ev)

C1_Witness ==
  /\ lastOp.op = "event" /\ lastOp.n = 5000
  /\ HasTruck(trucks, TargetTruck)
  /\ TruckById(trucks, TargetTruck).status = "delayed"

----------------------------------------------------------------------------
(* C2 *)

\* C2: after the consumer has unmounted, no truck mutation, log append or
\* opportunity change occurs, and every pending timer has been cancelled,
\* whenever the teardown happened.
C2_NothingPendingAfterTeardown ==
  /\ [][~mounted => UNCHANGED <<trucks, eventsLog, arbitrage>>]_vars
  /\ [](~mounted => timers = << >>)

----------------------------------------------------------------------------
(* C3 *)

\* C3: executeArbitrage called while no opportunity is active is a no-op:
\* neither the call nor the step after its grace delay changes the log, the
\* trucks' status and velocity, or the opportunity.
C3_ExecuteWithoutOpportunityIsNoOp ==
  [][ /\ (lastOp'.op = "execute" /\ arbitrage = NoArbitrage)
           => UNCHANGED <<eventsLog, trucks, arbitrage>>
      /\ (lastOp'.op = "commit" /\ lastOp'.tid = "undefined")
           => UNCHANGED <<eventsLog, trucks, arbitrage>> ]_vars

----------------------------------------------------------------------------
(* C4 *)

\* C4: with an opportunity active, executeArbitrage prepends the resolution
\* log entry at once and leaves trucks and opportunity unchanged, registering
\* the commit for GraceDelay later; when that commit runs (not before its
\* deadline) the target truck becomes resolved with a positive velocity and
\* the opportunity becomes null in the same step.
C4_ExecuteThenCommit ==
  [][ /\ (lastOp'.op = "execute" /\ arbitrage # NoArbitrage) =>
           /\ Len(eventsLog') = Len(eventsLog) + 1
           /\ Tail(eventsLog') = eventsLog
           /\ Head(eventsLog').message.text = ExecuteText
           /\ trucks' = trucks /\ arbitrage' = arbitrage
           /\ timers'[Len(timers')] =
                Timer("grace", now + GraceDelay, 0, arbitrage[1].truckId)
      /\ (lastOp'.op = "commit" /\ lastOp'.tid = TargetTruck /\ mounted) =>
           /\ now >= lastOp'.n
           /\ HasTruck(trucks', TargetTruck)
           /\ TruckById(trucks', TargetTruck).status = "resolved"
           /\ TruckById(trucks', TargetTruck).velocity > 0
           /\ arbitrage' = NoArbitrage ]_vars

C4_Witness ==
  /\ lastOp.op = "commit" /\ lastOp.tid = TargetTruck /\ mounted
  /\ TruckById(trucks, TargetTruck).status = "resolved"
  /\ arbitrage = NoArbitrage
  /\ \E i \in 1..Len(eventsLog) :
       /\ eventsLog[i].message.text = ExecuteText
       /\ eventsLog[i].timestamp + GraceDelay = now

----------------------------------------------------------------------------
(* C5 *)

\* C5: dismissArbitrage, in any state, sets the opportunity to null,
\* prepends exactly one informational dismissal entry to the log and leaves
\* every truck unchanged.
C5_DismissEffect ==
  [][ lastOp'.op = "dismiss" =>
        /\ arbitrage' = NoArbitrage
        /\ Len(eventsLog') = Len(eventsLog) + 1
        /\ Tail(eventsLog') = eventsLog
        /\ Head(eventsLog').message.text = DismissText
        /\ Head(eventsLog').severity = "info"
        /\ trucks' = trucks ]_vars

C5_Witness ==
  /\ lastOp.op = "dismiss"
  /\ arbitrage = NoArbitrage
  /\ Head(eventsLog).message.text = DismissText
  /\ \E i \in 1..Len(eventsLog) : eventsLog[i].type = "arbitrage"
  /\ ~ \E i \in 1..Len(eventsLog) : eventsLog[i].message.text = ExecuteText

----------------------------------------------------------------------------
(* C6 *)

\* C6: of two consecutive dismissArbitrage calls the second leaves the truck
\* list and the opportunity exactly as the first left them.
C6_DismissIdempotent ==
  [][ (lastOp.op = "dismiss" /\ lastOp'.op = "dismiss") =>
        (trucks' = trucks /\ arbitrage' = arbitrage) ]_vars

C6_Witness ==
  /\ lastOp.op = "dismiss"
  /\ Len(eventsLog) >= 2
  /\ eventsLog[1].message.text = DismissText
  /\ eventsLog[2].message.text = DismissText
  /\ \E i \in 1..Len(eventsLog) : eventsLog[i].type = "arbitrage"

----------------------------------------------------------------------------
(* C7 *)

TargetStatus(ts) == TruckById(ts, TargetTruck).status

\* C7: TRK-402 enters the list on-time, and its status changes only from
\* on-time to delayed (5000 ms event), from delayed to critical (8000 ms
\* event) and from critical to resolved (commit of executeArbitrage); no
\* scripted event sets resolved and no step skips a status.
C7_StatusSequence ==
  [][ /\ (~HasTruck(trucks, TargetTruck) /\ HasTruck(trucks', TargetTruck))
           => TargetStatus(trucks') = "on-time"
      /\ (HasTruck(trucks, TargetTruck) /\ HasTruck(trucks', TargetTruck)
            /\ TargetStatus(trucks') # TargetStatus(trucks))
           => \/ /\ TargetStatus(trucks) = "on-time"
                 /\ TargetStatus(trucks') = "delayed"
                 /\ lastOp'.op = "event" /\ lastOp'.n = 5000
              \/ /\ TargetStatus(trucks) = "delayed"
                 /\ TargetStatus(trucks') = "critical"
                 /\ lastOp'.op = "event" /\ lastOp'.n = 8000
              \/ /\ TargetStatus(trucks) = "critical"
                 /\ TargetStatus(trucks') = "resolved"
                 /\ lastOp'.op = "commit"
      /\ (HasTruck(trucks, TargetTruck) => HasTruck(trucks', TargetTruck))
    ]_vars

C7_Witness ==
  /\ HasTruck(trucks, TargetTruck)
  /\ TargetStatus(trucks) = "resolved"
  /\ lastOp.op = "commit"
  /\ CountLog("TRK-402 velocity dropped to 0 km/h") = 1
  /\ CountLog("TRK-402 CRITICAL - SLA threshold exceeded") = 1

----------------------------------------------------------------------------
(* C8 *)

\* C8: whenever an opportunity is active, its netSavings equals its
\* projectedPenalty minus its solutionCost.
C8_NetSavings ==
  arbitrage # NoArbitrage =>
    arbitrage[1].netSavings
      = arbitrage[1].projectedPenalty - arbitrage[1].solutionCost

C8_Witness ==
  /\ arbitrage # NoArbitrage
  /\ arbitrage[1].netSavings = 1700
  /\ lastOp.op = "event" /\ lastOp.n = 12000

----------------------------------------------------------------------------
(* C9 *)

RouteAnchored(t) ==
  /\ Len(t.route) > 0
  /\ t.route[1] = t.position
  /\ t.route[Len(t.route)] = t.destination

\* C9: every truck, in the truck list and in the list being initialized, has
\* a non-empty route whose first element is its position and whose last
\* element is its destination, for service routes and fallback routes alike.
C9_RouteAnchored ==
  /\ \A i \in 1..Len(trucks) : RouteAnchored(trucks[i])
  /\ \A i \in 1..Len(loadedTrucks) : RouteAnchored(loadedTrucks[i])

C9_Witness ==
  /\ routeLoaded /\ Len(trucks) = Len(ROUTES)
  /\ trucks[1].route = FallbackRoute(ROUTES[1])
  /\ Len(trucks[2].route) = 3 /\ trucks[2].position # ROUTES[2].start
  /\ Len(trucks[3].route) = 4
  /\ lastOp.op = "event"

----------------------------------------------------------------------------
(* C10 *)

FailureOutcomes == {"throw", "null", "empty"}

\* C10: when the route request of a configured truck throws, returns null or
\* returns an empty list, the truck is still created, with the two-point
\* route [start, end] of its configuration and the same state for the three
\* failure kinds, nothing is logged for it, and it is in the truck list once
\* initialization completes.
C10_FallbackOnFailure ==
  [][ /\ (lastOp'.op = "settle" /\ lastOp'.tid \in FailureOutcomes) =>
           LET cfg == ROUTES[loadIdx] IN
           /\ loadedTrucks' =
                Append(loadedTrucks,
                       [id |-> cfg.id, driver |-> cfg.driver,
                        cargoValue |-> cfg.cargoValue,
                        velocity |-> cfg.velocity, status |-> "on-time",
                        position |-> cfg.start, destination |-> cfg.end,
                        route |-> << cfg.start, cfg.end >>])
           /\ eventsLog' = eventsLog
      /\ (lastOp'.op = "complete" /\ mounted) =>
           /\ trucks' = loadedTrucks
           /\ Len(trucks') = Len(ROUTES)
           /\ \A i \in 1..Len(ROUTES) : trucks'[i].id = ROUTES[i].id ]_vars

C10_Witness ==
  /\ lastOp.op = "complete" /\ mounted
  /\ Len(trucks) = Len(ROUTES)
  /\ \A i \in 1..Len(trucks) : trucks[i].route = FallbackRoute(ROUTES[i])
  /\ Len(eventsLog) = 2

----------------------------------------------------------------------------
(* C11 *)

\* C11: the log is append-only under every interleaving: every step either
\* leaves the log unchanged or puts new entries in front of it, keeping
\* every earlier entry unchanged and in the same order, so the log's length
\* never decreases and no append is lost.
C11_LogAppendOnly ==
  [][ \/ eventsLog' = eventsLog
      \/ /\ Len(eventsLog') > Len(eventsLog)
         /\ SubSeq(eventsLog', Len(eventsLog') - Len(eventsLog) + 1,
                   Len(eventsLog')) = eventsLog ]_vars

C11_Witness ==
  /\ Len(eventsLog) = 11
  /\ eventsLog[Len(eventsLog)].id.prefix = "init"
  /\ CountLog(ExecuteText) = 1 /\ CountLog(DismissText) = 1
  /\ \E i \in 1..Len(eventsLog) : eventsLog[i].type = "arbitrage"

----------------------------------------------------------------------------
(* C12 *)

\* C12: no two entries of the log have the same id, also when they were
\* created in the same millisecond.
C12_UniqueLogIds ==
  \A i, j \in 1..Len(eventsLog) :
    i # j => eventsLog[i].id # eventsLog[j].id

----------------------------------------------------------------------------
(* C13 *)

ArbitrageText == "ARBITRAGE OPPORTUNITY - Net Savings: $1,700"

\* C13: the opportunity is set only by the 12000 ms event, which runs at
\* most once, and only from null; once that event has run and the
\* opportunity has been cleared, it stays null.
C13_OpportunityOnce ==
  [][ /\ (arbitrage' # NoArbitrage /\ arbitrage' # arbitrage) =>
           /\ arbitrage = NoArbitrage
           /\ lastOp'.op = "event" /\ lastOp'.n = 12000
           /\ CountLog(ArbitrageText) = 0
      /\ (CountLog(ArbitrageText) >= 1 /\ arbitrage = NoArbitrage) =>
           arbitrage' = NoArbitrage
      /\ (lastOp'.op = "event" /\ lastOp'.n = 12000) =>
           CountLog(ArbitrageText) = 0 ]_vars

C13_Witness ==
  /\ lastOp.op = "commit"
  /\ arbitrage = NoArbitrage
  /\ CountLog(ArbitrageText) = 1
  /\ CountLog(DismissText) = 1
  /\ eventsLog[1].message.text = DismissText

----------------------------------------------------------------------------
(* C14 *)

VelocityText == "TRK-402 velocity dropped to 0 km/h"
CriticalText == "TRK-402 CRITICAL - SLA threshold exceeded"

Target == TruckById(trucks, TargetTruck)

\* C14: with no call of the consumer, between the 5000 ms and the 8000 ms
\* event TRK-402 has velocity 0 and status delayed; from the 8000 ms event
\* to the 12000 ms event it has status critical and velocity 0 and the
\* opportunity is null; from the 12000 ms event on the opportunity is
\* non-null, for TRK-402, with projectedPenalty 2500, solutionCost 800 and
\* netSavings 1700.
C14_ScriptedTimeline ==
  Calls = 0 =>
    /\ (CountLog(VelocityText) = 1 /\ CountLog(CriticalText) = 0) =>
         /\ Target.velocity = 0 /\ Target.status = "delayed"
    /\ (CountLog(CriticalText) = 1 /\ CountLog(ArbitrageText) = 0) =>
         /\ Target.velocity = 0 /\ Target.status = "critical"
         /\ arbitrage = NoArbitrage
    /\ CountLog(ArbitrageText) = 1 =>
         /\ arbitrage # NoArbitrage
         /\ arbitrage[1].truckId = "TRK-402"
         /\ arbitrage[1].projectedPenalty = 2500
         /\ arbitrage[1].solutionCost = 800
         /\ arbitrage[1].netSavings = 1700
         /\ Target.velocity = 0 /\ Target.status = "critical"

C14_Witness ==
  /\ Calls = 0
  /\ lastOp.op = "event" /\ lastOp.n = 12000
  /\ CountLog(VelocityText) = 1 /\ CountLog(CriticalText) = 1
  /\ CountLog(ArbitrageText) = 1
  /\ arbitrage # NoArbitrage

----------------------------------------------------------------------------
(* C15 *)

\* Torn down after initialization completed and before the 5000 ms event
EarlyTeardown == ~mounted /\ routeLoaded /\ CountLog(VelocityText) = 0

\* C15: after a teardown that follows the completion of initialization and
\* precedes the 5000 ms event, no playback timer is pending, no playback
\* event fires, and no step changes the truck list, the log or the
\* opportunity: TRK-402 stays on-time and the opportunity stays null.
C15_FrozenAfterEarlyTeardown ==
  /\ [](EarlyTeardown =>
          /\ EventTimers = {}
          /\ Target.status = "on-time"
          /\ arbitrage = NoArbitrage)
  /\ [][EarlyTeardown =>
          /\ UNCHANGED <<trucks, eventsLog, arbitrage>>
          /\ lastOp'.op # "event"
          /\ EarlyTeardown']_vars

C15_Witness ==
  /\ EarlyTeardown
  /\ now >= CompletedAt + 12000
  /\ lastOp.op = "tick"
  /\ Len(trucks) = Len(ROUTES)

----------------------------------------------------------------------------
(* C16 *)

\* Initialization has completed with every configured truck in the list, in
\* configuration order, and the playback timers are registered
InitCompleted ==
  /\ loadPc = "done" /\ routeLoaded
  /\ Len(trucks) = Len(ROUTES)
  /\ \A i \in 1..Len(ROUTES) : trucks[i].id = ROUTES[i].id
  /\ Cardinality(EventTimers) = NumEvents

\* The first route request has just been issued, early enough for the
\* inter-request delays to elapse before the clock of the model stops
InitStarted ==
  /\ loadPc = "await" /\ loadIdx = 1
  /\ now + Len(ROUTES) * InterRequestDelay <= MaxTime

\* C16: provided every route request eventually settles, in whatever way,
\* a simulator that has started initialization and is not torn down
\* eventually completes it with all 3 configured trucks in the truck list
\* and the playback phase started.
C16_InitializationCompletes == InitStarted ~> (~mounted \/ InitCompleted)

C16_Witness ==
  /\ mounted /\ InitCompleted
  /\ lastOp.op = "complete"
  /\ response.kind = "network-error"
  /\ trucks[Len(ROUTES)].route = FallbackRoute(ROUTES[Len(ROUTES)])
  /\ \E j \in 1..Len(ROUTES) :
       trucks[j].route = RoadResponse(ROUTES[j]).routes[1].coordinates

----------------------------------------------------------------------------
(* C17 *)

\* The per-truck entries of the log for one configured truck
RouteLogCount(id) ==
  Cardinality({ i \in 1..Len(eventsLog) :
                  /\ eventsLog[i].id.prefix = "evt-route"
                  /\ eventsLog[i].id.truck = id })

\* C17 as stated: after initialization the log holds one per-truck entry
\* for each of the 3 configured trucks, whether the truck's route was loaded
\* from the routing service or the fallback was used.
C17_EntryForEveryTruck ==
  routeLoaded => \A i \in 1..Len(ROUTES) : RouteLogCount(ROUTES[i].id) = 1

\* C17 amended: a loop iteration appends one per-truck entry, with the
\* truck's id and the number of waypoints, exactly when the route was loaded
\* from the routing service, and appends nothing when the fallback was used;
\* after initialization the log holds at most one per-truck entry for each
\* configured truck, and a truck without an entry has the fallback route.
C17_EntryForEveryLoadedRoute ==
  /\ [][(lastOp'.op = "settle" /\ mounted) =>
          IF lastOp'.tid = "ok"
            THEN /\ Len(eventsLog') = Len(eventsLog) + 1
                 /\ eventsLog'[1].id.prefix = "evt-route"
                 /\ eventsLog'[1].id.truck = ROUTES[loadIdx].id
                 /\ eventsLog'[1].message.n =
                      Len(loadedTrucks'[loadIdx].route)
            ELSE eventsLog' = eventsLog]_vars
  /\ [](routeLoaded =>
          \A i \in 1..Len(ROUTES) :
            /\ RouteLogCount(ROUTES[i].id) <= 1
            /\ RouteLogCount(ROUTES[i].id) = 0 =>
                 trucks[i].route = FallbackRoute(ROUTES[i]))

C17_Witness ==
  /\ routeLoaded /\ lastOp.op = "complete"
  /\ RouteLogCount(ROUTES[1].id) = 1
  /\ RouteLogCount(ROUTES[2].id) = 0
  /\ RouteLogCount(ROUTES[3].id) = 1
  /\ trucks[2].route = FallbackRoute(ROUTES[2])

----------------------------------------------------------------------------
(* C18 *)

DelayTimers(q) == { i \in 1..Len(q) : q[i].kind = "delay" }

\* C18: a route request is issued only at mount (the first one) or when
\* the delay that followed the previous request's settling has elapsed (the
\* next one in configuration order); a settled request is followed by a
\* delay of 300 ms; while a request is in flight no other request and no
\* delay is pending, and the trucks are accumulated in configuration order.
C18_SequentialRequests ==
  /\ [][ /\ (loadPc' = "await" /\ loadPc # "await") =>
              \/ loadPc = "start" /\ loadIdx' = 1
              \/ /\ loadPc = "delay"
                 /\ loadIdx' = loadIdx + 1
                 /\ Len(loadedTrucks) = loadIdx
                 /\ \E k \in DelayTimers(timers) : timers[k].due <= now
                 /\ DelayTimers(timers') = {}
         /\ (loadPc = "await" /\ loadPc' # "await") =>
              /\ loadPc' = "delay" /\ loadIdx' = loadIdx
              /\ Cardinality(DelayTimers(timers')) = 1
              /\ \A k \in DelayTimers(timers') : timers'[k].due = now + 300
         /\ loadIdx' >= loadIdx ]_vars
  /\ [](/\ loadPc = "await" =>
             /\ Len(loadedTrucks) = loadIdx - 1
             /\ DelayTimers(timers) = {}
        /\ Len(loadedTrucks) <= Len(ROUTES)
        /\ \A i \in 1..Len(loadedTrucks) : loadedTrucks[i].id = ROUTES[i].id)

C18_Witness ==
  /\ lastOp.op = "next" /\ loadPc = "await"
  /\ loadIdx = Len(ROUTES)
  /\ Len(loadedTrucks) = Len(ROUTES) - 1
  /\ now >= 2 * 300

----------------------------------------------------------------------------
(* C19 *)

\* The failures of a route request: the request fails, the answer is not
\* JSON, its code is not 'Ok', its route list is empty, or its first
\* candidate has no geometry
FailedResponse(resp) ==
  \/ resp.kind = "network-error" \/ resp.kind = "not-json"
  \/ resp.code # "Ok"
  \/ Len(resp.routes) = 0
  \/ ~resp.routes[1].wellFormed

\* C19: whatever the routing service answered to the last request,
\* fetchRoute does not throw: on a failure it returns null, and otherwise it
\* returns the coordinate list of the first candidate unchanged.
C19_ResolverNeverThrows ==
  response # NoResponse =>
    LET r == fetchRoute(response) IN
      /\ r.kind # "throw"
      /\ FailedResponse(response) => r.kind = "null"
      /\ ~FailedResponse(response) =>
           r.kind = "route" /\ r.route = response.routes[1].coordinates

----------------------------------------------------------------------------
(* C20 *)

Rank(status) ==
  CASE status = "on-time" -> 0
    [] status = "delayed" -> 1
    [] status = "critical" -> 2
    [] status = "resolved" -> 3

\* C20: no step moves the status of a truck of the list backward in the
\* order on-time < delayed < critical < resolved, and no step removes or
\* replaces a truck of the list; a resolved truck stays resolved.
C20_StatusNeverMovesBackward ==
  [][\A i \in 1..Len(trucks) :
       /\ i <= Len(trucks')
       /\ trucks'[i].id = trucks[i].id
       /\ Rank(trucks'[i].status) >= Rank(trucks[i].status)
       /\ trucks[i].status = "resolved" => trucks'[i].status = "resolved"
    ]_vars

C20_Witness ==
  /\ HasTruck(trucks, TargetTruck)
  /\ TargetStatus(trucks) = "resolved"
  /\ lastOp.op = "dismiss"
  /\ eventsLog[2].message.text = ExecuteText

----------------------------------------------------------------------------
(* C21 *)

Dismissed == CountLog(DismissText) >= 1

\* C21: once the opportunity has been dismissed through the modal, no step
\* changes the target truck's status from critical or its velocity from 0,
\* and no step adds a resolution entry to the log, also when Execute was
\* clicked before the dismissal.
C21_DismissedStaysCritical ==
  [][Dismissed =>
       /\ Target'.status = "critical" /\ Target'.velocity = 0
       /\ CountLog(ExecuteText)' = CountLog(ExecuteText)]_vars

----------------------------------------------------------------------------
(* C22 *)

\* C22: every step taken once the truck list is populated leaves the number
\* of trucks and, for every truck, the id, driver, cargoValue, position,
\* destination and route unchanged, and leaves every truck other than
\* TRK-402 unchanged altogether: only the status and the velocity of
\* TRK-402 are modified.
C22_OnlyTargetStatusAndVelocityChange ==
  [][trucks # << >> =>
       /\ Len(trucks') = Len(trucks)
       /\ \A i \in 1..Len(trucks) :
            /\ trucks'[i] = [trucks[i] EXCEPT
                               !.status = trucks'[i].status,
                               !.velocity = trucks'[i].velocity]
            /\ trucks[i].id # TargetTruck => trucks'[i] = trucks[i]]_vars

C22_Witness ==
  /\ lastOp.op = "commit" /\ lastOp.tid = TargetTruck
  /\ Len(trucks) = Len(ROUTES)
  /\ Target.status = "resolved" /\ Target.velocity = ResolvedVelocity
  /\ \A i \in 1..Len(trucks) :
       trucks[i].id # TargetTruck =>
         trucks[i].status = "on-time" /\ trucks[i].velocity = ROUTES[i].velocity

----------------------------------------------------------------------------
(* C29 *)

\* C29: whenever the opportunity is non-null, the truck it references is
\* TRK-402, is in the truck list, and has status critical and velocity 0.
C29_OpportunityOnlyWhileCritical ==
  arbitrage # NoArbitrage =>
    /\ arbitrage[1].truckId = TargetTruck
    /\ HasTruck(trucks, arbitrage[1].truckId)
    /\ TruckById(trucks, arbitrage[1].truckId).status = "critical"
    /\ TruckById(trucks, arbitrage[1].truckId).velocity = 0

C29_Witness ==
  /\ arbitrage # NoArbitrage
  /\ lastOp.op = "execute"
  /\ CountLog(ExecuteText) = 2
  /\ Target.status = "critical"

----------------------------------------------------------------------------
(* C30 *)

\* C30: the truck list is empty until initialization completes; the step
\* that populates it is the completion of loadRoutes and sets it to the 3
\* configured trucks in configuration order, with pairwise distinct ids,
\* each on-time with its configured velocity; afterwards no step changes
\* the number, the order or the ids of the trucks.
C30_TruckListSetOnce ==
  /\ [](~routeLoaded => trucks = << >>)
  /\ [][ /\ (trucks = << >> /\ trucks' # << >>) =>
              /\ lastOp'.op = "complete" /\ routeLoaded'
              /\ Len(trucks') = Len(ROUTES)
              /\ \A i \in 1..Len(ROUTES) :
                   /\ trucks'[i].id = ROUTES[i].id
                   /\ trucks'[i].status = "on-time"
                   /\ trucks'[i].velocity = ROUTES[i].velocity
              /\ \A i, j \in 1..Len(ROUTES) :
                   i # j => trucks'[i].id # trucks'[j].id
         /\ trucks # << >> =>
              /\ Len(trucks') = Len(trucks)
              /\ \A i \in 1..Len(trucks) : trucks'[i].id = trucks[i].id
       ]_vars

C30_Witness ==
  /\ Len(trucks) = Len(ROUTES)
  /\ lastOp.op = "event" /\ lastOp.n = 8000
  /\ trucks[2].route = FallbackRoute(ROUTES[2])
  /\ trucks[3].route # FallbackRoute(ROUTES[3])
  /\ Target.status = "critical"

----------------------------------------------------------------------------
(* C23 *)

Showing == state.arbitrageOpportunity

----------------------------------------------------------------------------
(* C24 *)

\* A CRITICAL alert for truck X: the message contains 'CRITICAL' and the
\* first truck id in it is X
CriticalAlertFor(e, X) == e.critical /\ Len(e.ids) > 0 /\ e.ids[1] = X

\* C24: for every truck X that executeArbitrage has resolved, the events
\* list holds no CRITICAL alert for X and every truck X of the truck list
\* has status resolved.
C24_NoCriticalAlertAfterResolve ==
  \A X \in resolvedTrucksSet :
    /\ \A k \in 1..Len(state.events) : ~CriticalAlertFor(state.events[k], X)
    /\ \A i \in 1..Len(state.trucks) :
         state.trucks[i].id = X => state.trucks[i].status = "resolved"

----------------------------------------------------------------------------
(* C25 *)

\* C25: while an opportunity is showing, the only steps that change it are
\* dismissArbitrage, executeArbitrage and an arbitrage_executed message, and
\* they clear it; no state_update or arbitrage_opportunity message replaces
\* it.
C25_ShowingOpportunityNotReplaced ==
  [][(Showing # None /\ Showing' # Showing) =>
       /\ Showing' = None
       /\ \/ wsOp'.op \in {"dismiss", "execute"}
          \/ wsOp'.op = "message" /\ wsOp'.type = "arbitrage_executed"]_vars

C25_Witness ==
  /\ Showing = Some(WsArbitrage(TargetTruck))
  /\ wsOp.op = "message" /\ wsOp.type = "state_update"
  /\ wsOp.truckId = OtherTruck
  /\ OtherTruck \notin dismissedArbitrageSet
  /\ isArbitrageFresh(wsNow, connectionTimestamp)
  /\ wsMounted

----------------------------------------------------------------------------
(* C26 *)

\* C26: the opportunity becomes non-null only by a message that is not an
\* initial_state message and that arrives on a connection that opened more
\* than 2000 ms earlier; an initial_state message never changes it.
C26_OnlyFreshOpportunityShown ==
  [][ /\ (Showing' # None /\ Showing' # Showing) =>
           /\ wsOp'.op = "message" /\ wsOp'.type # "initial_state"
           /\ sockets[wsOp'.sock].status \in {"open", "closing"}
           /\ wsNow - sockets[wsOp'.sock].openedAt > 2000
           /\ connectionTimestamp # 0
      /\ (wsOp'.op = "message" /\ wsOp'.type = "initial_state") =>
           Showing' = Showing ]_vars

C26_Witness ==
  /\ Showing # None
  /\ wsOp.op = "message" /\ wsOp.sock = 2
  /\ sockets[2].status = "open"
  /\ wsNow - sockets[2].openedAt > 2000

----------------------------------------------------------------------------
(* C27 *)

\* The documented waits of the reconnect attempts
ExpectedWait(n) ==
  CASE n = 1 -> 2000 [] n = 2 -> 4000 [] n = 3 -> 8000
    [] n = 4 -> 10000 [] n = 5 -> 10000

\* C27: the attempt counter stays within 0..5; a close with fewer than 5
\* attempts made since the last open makes the next attempt n and sets one
\* timer due after the wait of attempt n; a close after 5 attempts sets no
\* timer and sets the error field; a reconnect happens only when its timer
\* is due; a successful open resets the counter to 0.
C27_BoundedBackoff ==
  /\ [](reconnectAttempts \in 0..5)
  /\ [][ /\ wsOp'.op = "close" =>
              IF reconnectAttempts < 5
                THEN /\ reconnectAttempts' = reconnectAttempts + 1
                     /\ Len(wsTimers') = Len(wsTimers) + 1
                     /\ wsTimers'[Len(wsTimers')] =
                          WsTimer(wsNow + ExpectedWait(reconnectAttempts'),
                                  "pending")
                ELSE /\ wsTimers' = wsTimers
                     /\ reconnectAttempts' = reconnectAttempts
                     /\ wsMounted => state'.error # None
         /\ wsOp'.op = "open" => reconnectAttempts' = 0
         /\ Len(sockets') > Len(sockets) =>
              \/ wsOp'.op = "mount"
              \/ /\ wsOp'.op = "reconnect"
                 /\ \E k \in PendingTimers :
                      /\ wsTimers[k].due <= wsNow
                      /\ wsTimers'[k].status = "fired"
         /\ Len(wsTimers') > Len(wsTimers) => wsOp'.op = "close"
       ]_vars

C27_Witness ==
  /\ wsMounted
  /\ wsOp.op = "close"
  /\ reconnectAttempts = 5
  /\ PendingTimers = {}
  /\ Len(wsTimers) = 5
  /\ state.error = Some("Failed to connect to server")

----------------------------------------------------------------------------
(* C28 *)

\* C28: once the effect cleanup has run, no reconnect timer is pending, no
\* step sets one and no step creates a socket.
C28_QuietAfterUnmount ==
  /\ [](~wsMounted => PendingTimers = {})
  /\ [][~wsMounted =>
          /\ Len(sockets') = Len(sockets)
          /\ Len(wsTimers') = Len(wsTimers)]_vars

====
